---- MODULE Spec2Model ----
(***************************************************************************)
(* Model of src/ssh_socks_simple.py: the SOCKS5 relay server               *)
(* (ForwardServer.run, the accept loop, and ForwardServer.handle_socks,    *)
(* the per-connection handler thread) together with the endpoints the      *)
(* handler talks to: the SOCKS client on the other end of client_sock, the *)
(* paramiko transport and the remote end of the direct-tcpip channel.      *)
(*                                                                         *)
(* Every blocking call of the handler (recv, send, open_channel, select,   *)
(* is_active) is one step of the handler; the code that follows the call   *)
(* up to the next blocking call belongs to the same step.                  *)
(***************************************************************************)
EXTENDS Integers, Sequences, FiniteSets, TLC

\* ---------------------------------------------------------------- bounds
MaxConns  == 2      \* connections the listener can be offered
MaxWindow == 2      \* largest send window the remote end grants a channel
MaxFaults == 2      \* things that go wrong in a run with several clients

\* ------------------------------------------------------ program constants
GreetingBuf == 262  \* client_sock.recv(262)
RequestLen  == 4    \* client_sock.recv(4)
IPv4Len     == 4    \* client_sock.recv(4) of the address
PortLen     == 2    \* client_sock.recv(2)
RelayBuf    == 8192 \* recv(8192) of the relay loop
SOCKS5      == 5    \* data[0] != 0x05
CONNECT     == 1    \* data[1] != 0x01
ATYP_IPV4   == 1    \* atyp == 0x01
ATYP_DOMAIN == 3    \* atyp == 0x03

Conns == 1..MaxConns

\* the result of a call that raised
RAISE == <<-1>>

Min(a, b) == IF a < b THEN a ELSE b

RECURSIVE Flat(_)
Flat(msgs) == IF msgs = <<>> THEN <<>> ELSE Head(msgs) \o Flat(Tail(msgs))

IsPrefix(s, t) == Len(s) <= Len(t) /\ SubSeq(t, 1, Len(s)) = s

\* ------------------------------------------------------------ wire frames
\* faulty variant: "no acceptable methods"
GreetingReply_noacceptable == <<5, 255>>
GreetingReply == <<5, 0>>
\* faulty variants of the two reply frames
FailureReply_swapped == <<5, 0, 0, 1, 0, 0, 0, 0, 0, 0>>
FailureReply  == <<5, 5, 0, 1, 0, 0, 0, 0, 0, 0>>
SuccessReply_wrongcode == <<5, 1, 0, 1, 0, 0, 0, 0, 0, 0>>
SuccessReply  == <<5, 0, 0, 1, 0, 0, 0, 0, 0, 0>>

\* ------------------------------------------------ what the clients write
\* A client writes the messages of its script in order.  A synchronous
\* client writes a whole message once the server has consumed everything
\* it wrote before; an asynchronous client writes byte by byte whenever it
\* likes, so that every segmentation and every pipelining of the bytes
\* reaches the handler's recv calls.
Greeting     == <<5, 1, 0>>
ReqIPv4      == <<5, 1, 0, 1, 10, 0, 0, 1, 0, 80>>
ReqDomain    == <<5, 1, 0, 3, 2, 97, 98, 0, 80>>
ReqBind      == <<5, 2, 0, 1, 10, 0, 0, 1, 0, 80>>
ReqIPv6      == <<5, 1, 0, 4, 0, 0, 0, 0, 0, 0, 0, 0, 0, 0, 0, 0, 0, 0, 0, 1, 0, 80>>
ReqBadUtf8   == <<5, 1, 0, 3, 1, 255, 0, 80>>
Payload      == <<101, 102>>

\* a greeting that offers only the method "username/password"
GreetingUserPass == <<5, 1, 2>>

\* CONNECT example.com:80
ReqExample == <<5, 1, 0, 3, 11, 101, 120, 97, 109, 112, 108, 101, 46, 99, 111, 109,
                0, 80>>

\* CONNECT 10.0.0.1:80 with version 4 and a reserved byte of 9 in the header
ReqOddHeader == <<4, 1, 9, 1, 10, 0, 0, 1, 0, 80>>

\* CONNECT a:80
ReqDomainShort == <<5, 1, 0, 3, 1, 97, 0, 80>>

\* well-behaved clients, one message at a time
SyncMessages ==
  { <<Greeting, ReqIPv4>>,
    <<Greeting, ReqExample>>,
    <<Greeting, ReqOddHeader>>,
    <<GreetingUserPass, ReqDomain>>,
    <<Greeting, ReqDomain, Payload, <<103>>>>,
    <<Greeting, ReqBind>>,
    <<Greeting, ReqIPv6>>,
    <<Greeting, ReqBadUtf8>>,
    <<<<4, 1, 0>>, ReqDomain>>,
    <<<<5, 0>>, ReqBind>> }

\* clients whose bytes arrive one by one
AsyncMessages ==
  { <<Greeting, ReqIPv4>>,
    <<Greeting, ReqDomainShort>>,
    <<Greeting, <<5, 2, 0, 1>>>>,
    <<Greeting, <<5, 1, 0, 4>>>> }

Scripts == [msgs : SyncMessages, sync : {TRUE}] \cup
           [msgs : AsyncMessages, sync : {FALSE}]

\* what the remote end of a channel writes
RemoteData == <<201, 202>>

Bytes(c_script) == Flat(c_script.msgs)

\* the end of the message that contains byte number n+1 of the script
RECURSIVE Boundary(_, _, _)
Boundary(msgs, n, acc) ==
  IF msgs = <<>> THEN acc
  ELSE IF n < acc + Len(Head(msgs)) THEN acc + Len(Head(msgs))
  ELSE Boundary(Tail(msgs), n, acc + Len(Head(msgs)))

VARIABLES
  run_pc,            \* ForwardServer.run: "bind", "accept", "stopped", "crashed"
  transport_active,  \* what transport.is_active() answers
  client,            \* the SOCKS client behind each connection
  client_sock,       \* the accepted socket, as the handler holds it
  channel,           \* the direct-tcpip channel of each connection
  handler,           \* handle_socks: position and local variables
  hist,              \* per connection: what the handler has done so far
  main_pc,           \* __main__: "start", "join", "exit_0", "exit_1"
  accept_exc,        \* what made run leave its loop: "none", "transient",
                     \* "fatal" (both raised by accept) or "start" (by t.start)
  faults             \* how many more faults the environment may inject

vars == <<run_pc, transport_active, client, client_sock, channel, handler, hist,
          main_pc, accept_exc, faults>>

\* no limit on the faults
Unlimited == 0 - 1

\* a fault is injected
Fault == faults # 0 /\ faults' = (IF faults < 0 THEN faults ELSE faults - 1)

\* the outcomes of a call that can fail: failure only if a fault is left
Outcomes == IF faults = 0 THEN {TRUE} ELSE BOOLEAN

\* the budget after a call that succeeded, or failed
After(ok) == IF ok \/ faults < 0 THEN faults ELSE faults - 1


Absent == [msgs |-> <<>>, sync |-> TRUE]

NoClient  == [state |-> "idle", script |-> Absent, written |-> 0,
              stalled |-> FALSE]
NewSock   == [closed |-> FALSE, rd |-> 0, sent |-> <<>>]
NoChannel == [state |-> "unbound", window |-> 0, sent |-> <<>>,
              remote |-> "open", rwritten |-> 0, rd |-> 0]
NewThread == [pc |-> "unborn", data |-> <<>>, addr_len |-> 0, addr |-> <<>>,
              port |-> 0, r |-> {}, exc |-> FALSE]
NoHist    == [reads |-> <<>>, opens |-> 0, dest |-> <<>>, relay_from |-> 0,
              dead_selects |-> 0, eof_select |-> FALSE, left |-> <<>>,
              unchecked |-> FALSE, dead_chunks |-> <<0, 0>>, serviced |-> {},
              close_errors |-> {}]

InitWith(scripts) ==
  /\ main_pc = "start"
  /\ accept_exc = "none"
  /\ run_pc = "bind"
  /\ transport_active = TRUE
  /\ client = [c \in Conns |-> [NoClient EXCEPT !.script = scripts[c]]]
  /\ client_sock = [c \in Conns |-> NewSock]
  /\ channel = [c \in Conns |-> NoChannel]
  /\ handler = [c \in Conns |-> NewThread]
  /\ hist = [c \in Conns |-> NoHist]

\* one client, any script, any timing; the other connections stay unused
Init ==
  /\ \E s \in Scripts : InitWith([c \in Conns |-> IF c = 1 THEN s ELSE Absent])
  /\ faults = Unlimited

\* several clients at once: each connects to the same destination or sends
\* a malformed request, and at most MaxFaults things go wrong
ConcMessages == { <<Greeting, ReqIPv4, <<101>>>>, <<Greeting, ReqBadUtf8>> }

InitConc ==
  /\ \E ss \in [Conns -> [msgs : ConcMessages, sync : {TRUE}]] : InitWith(ss)
  /\ faults = MaxFaults

\* ------------------------------------------------------------ the clients
ClientConnect(c) ==
  /\ run_pc = "accept"
  /\ client[c].state = "idle"
  /\ client[c].script # Absent
  /\ client' = [client EXCEPT ![c].state = "open"]
  /\ UNCHANGED <<run_pc, transport_active, client_sock, channel, handler, hist, main_pc, accept_exc>>
  /\ UNCHANGED faults

ClientWrite(c) ==
  /\ client[c].state = "open"
  /\ client[c].written < Len(Bytes(client[c].script))
  /\ IF client[c].script.sync
       THEN /\ client[c].written = client_sock[c].rd
            /\ client' = [client EXCEPT ![c].written =
                            Boundary(client[c].script.msgs, @, 0)]
       ELSE client' = [client EXCEPT ![c].written = @ + 1]
  /\ UNCHANGED <<run_pc, transport_active, client_sock, channel, handler, hist, main_pc, accept_exc>>
  /\ UNCHANGED faults

\* the client closes its socket: the server reads what is buffered, then EOF
ClientClose(c) ==
  /\ client[c].state = "open"
  /\ client' = [client EXCEPT ![c].state = "closed"]
  /\ UNCHANGED <<run_pc, transport_active, client_sock, channel, handler, hist, main_pc, accept_exc>>
  /\ Fault

\* the connection is reset: every later recv or send on client_sock raises
ClientReset(c) ==
  /\ client[c].state \in {"open", "closed"}
  /\ client' = [client EXCEPT ![c].state = "reset"]
  /\ UNCHANGED <<run_pc, transport_active, client_sock, channel, handler, hist, main_pc, accept_exc>>
  /\ Fault

\* the client stops reading while the handler has data for it: the buffers
\* are full and the handler's send waits
ClientStall(c) ==
  /\ handler[c].pc = "client_send"
  /\ client[c].state = "open"
  /\ ~client[c].stalled
  /\ client' = [client EXCEPT ![c].stalled = TRUE]
  /\ Fault
  /\ UNCHANGED <<run_pc, transport_active, client_sock, channel, handler, hist,
                 main_pc, accept_exc>>

\* the client reads again
ClientResume(c) ==
  /\ client[c].stalled
  /\ client' = [client EXCEPT ![c].stalled = FALSE]
  /\ UNCHANGED <<run_pc, transport_active, client_sock, channel, handler, hist,
                 main_pc, accept_exc, faults>>

\* ------------------------------------------- the transport and the remote
RemoteWrite(c) ==
  /\ transport_active
  /\ channel[c].state = "open"
  /\ channel[c].remote = "open"
  /\ channel[c].rwritten < Len(RemoteData)
  /\ channel' = [channel EXCEPT ![c].rwritten = @ + 1]
  /\ UNCHANGED <<run_pc, transport_active, client, client_sock, handler, hist, main_pc, accept_exc>>
  /\ Fault

RemoteEof(c) ==
  /\ channel[c].state = "open"
  /\ channel[c].remote = "open"
  /\ channel' = [channel EXCEPT ![c].remote = "eof"]
  /\ UNCHANGED <<run_pc, transport_active, client, client_sock, handler, hist, main_pc, accept_exc>>
  /\ Fault

\* the remote end consumed what it was sent and reopens the send window
WindowAdjust(c) ==
  /\ transport_active
  /\ channel[c].state = "open"
  /\ channel[c].remote = "open"
  /\ channel[c].window < MaxWindow
  /\ channel' = [channel EXCEPT ![c].window = MaxWindow]
  /\ UNCHANGED <<run_pc, transport_active, client, client_sock, handler, hist, main_pc, accept_exc>>
  /\ Fault

\* the SSH transport dies; is_active() is false from then on
TransportDies ==
  /\ transport_active
  /\ transport_active' = FALSE
  /\ UNCHANGED <<run_pc, client, client_sock, channel, handler, hist, main_pc, accept_exc>>
  /\ Fault

\* ------------------------------------------------------------ __main__
\* server = forward_tunnel(...); server.start(): the thread runs, or start
\* raises and "except Exception" prints the error and exits with status 1
main_start ==
  /\ main_pc = "start"
  /\ \E ok \in Outcomes :
       /\ main_pc' = IF ok THEN "join" ELSE "exit_1"
       /\ faults' = After(ok)
  /\ UNCHANGED <<run_pc, transport_active, client, client_sock, channel, handler,
                 hist, accept_exc>>

\* faulty variant: handler threads are daemon threads, the process ends
\* without them
daemon_threads == TRUE

\* t.daemon = False: the interpreter waits for the handler threads
daemon == FALSE

\* how the process ends when server.join() has returned: join returns
\* normally however run ended, and the script ends after it
after_join(ended) == "exit_0"

\* server.join() returns once run has returned or raised; the process exits
\* when the handler threads, which are not daemon threads, have ended too
main_join ==
  /\ main_pc = "join"
  /\ run_pc \in {"stopped", "crashed"}
  /\ daemon \/ \A c \in Conns : handler[c].pc \in {"unborn", "orphan", "done"}
  /\ main_pc' = after_join(run_pc)
  /\ UNCHANGED <<run_pc, transport_active, client, client_sock, channel, handler,
                 hist, accept_exc, faults>>

main == main_start \/ main_join

\* --------------------------------------------------- ForwardServer.run
\* socket(), setsockopt, bind, listen: an exception of bind leaves run
bind ==
  /\ main_pc = "join"
  /\ run_pc = "bind"
  /\ \E ok \in Outcomes :
       /\ run_pc' = IF ok THEN "accept" ELSE "crashed"
       /\ faults' = After(ok)
  /\ UNCHANGED <<transport_active, client, client_sock, channel, handler, hist,
                 main_pc, accept_exc>>

\* faulty variant: the connection is handled in the accept loop itself
accepting_inline ==
  run_pc = "accept" /\ \A d \in Conns : handler[d].pc \in {"unborn", "orphan", "done"}

\* the loop is in server.accept(): it is back there as soon as the handler
\* thread of the last connection was started
accepting == run_pc = "accept"

\* server.accept() returns a connection; its handler thread is started, or
\* t.start() raises, which the except clause takes for an accept error
accept(c) ==
  /\ accepting
  /\ client[c].state # "idle"
  /\ handler[c].pc = "unborn"
  /\ \E started \in Outcomes :
       /\ faults' = After(started)
       /\ IF started
            THEN /\ handler' = [handler EXCEPT ![c].pc = "greeting"]
                 /\ UNCHANGED <<run_pc, accept_exc>>
            ELSE /\ handler' = [handler EXCEPT ![c].pc = "orphan"]
                 /\ run_pc' = "stopped"
                 /\ accept_exc' = "start"
  /\ UNCHANGED <<transport_active, client, client_sock, channel, hist, main_pc>>

\* where run goes when server.accept() raised: "print(...); break" whatever
\* the exception is
after_accept_error(kind) == "stopped"

\* server.accept() raises: an error of this one connection attempt
\* ("transient": ECONNABORTED, EMFILE, ...) or of the listening socket
accept_error ==
  /\ accepting
  /\ Fault
  /\ \E kind \in {"transient", "fatal"} :
       /\ accept_exc' = kind
       /\ run_pc' = after_accept_error(kind)
  /\ UNCHANGED <<transport_active, client, client_sock, channel, handler, hist,
                 main_pc>>

run == bind \/ accept_error \/ \E c \in Conns : accept(c)


\* ------------------------------------------------------ socket primitives
Avail(c) == client[c].written - client_sock[c].rd

\* client_sock.recv(n) on the blocking socket: what has arrived, at most n
\* bytes; b'' at end of stream; an exception on a reset connection.  The
\* call blocks (no result) while nothing has arrived on an open connection.
recv(c, n) ==
  IF client[c].state = "reset" THEN {RAISE}
  ELSE IF n = 0 THEN {<<>>}
  ELSE IF Avail(c) > 0
    THEN {SubSeq(Bytes(client[c].script), client_sock[c].rd + 1,
                 client_sock[c].rd + Min(n, Avail(c)))}
  ELSE IF client[c].state = "closed" THEN {<<>>}
  ELSE {}

\* client_sock.send(data) on the blocking socket: TRUE when the kernel took
\* the bytes (all of them: the call waits for buffer space), FALSE when the
\* call raised.  After the client closed, a send may still succeed.
send(c) ==
  CASE client[c].state = "reset"  -> {FALSE}
    [] client[c].state = "closed" -> {TRUE, FALSE}
    [] OTHER                      -> {TRUE}

\* ------------------------------------------------------- pure functions
\* faulty variant: a greeting is rejected unless it offers method 0
greeting_rejected_methods(data) ==
  \/ Len(data) < 2
  \/ data[1] # SOCKS5
  \/ ~\E i \in 3..Len(data) : data[i] = 0

\* faulty variant: the version byte is not looked at
greeting_rejected_lenonly(data) == Len(data) < 2

\* len(data) < 2 or data[0] != 0x05
greeting_rejected(data) == Len(data) < 2 \/ data[1] # SOCKS5

\* faulty variant: version and reserved byte are checked as well
request_rejected_strict(data) ==
  \/ Len(data) < RequestLen
  \/ data[1] # SOCKS5
  \/ data[2] # CONNECT
  \/ data[3] # 0

\* faulty variant: the command byte is not looked at
request_rejected_lenonly(data) == Len(data) < RequestLen

\* len(data) < 4, then data[1] != 0x01
request_rejected(data) == Len(data) < RequestLen \/ data[2] # CONNECT

RECURSIVE Decimal(_)
Decimal(n) == IF n < 10 THEN <<48 + n>> ELSE Decimal(n \div 10) \o <<48 + (n % 10)>>

\* socket.inet_ntoa: dotted decimal text, an exception unless 4 bytes
inet_ntoa(b) ==
  IF Len(b) # IPv4Len THEN RAISE
  ELSE Decimal(b[1]) \o <<46>> \o Decimal(b[2]) \o <<46>> \o
       Decimal(b[3]) \o <<46>> \o Decimal(b[4])

\* bytes.decode('utf-8') of the bytes the scripts use: ASCII bytes are their
\* own code points, a byte of 0x80 or more on its own is a decoding error
decode(b) ==
  IF \E i \in 1..Len(b) : b[i] >= 128 THEN RAISE
  ELSE [i \in 1..Len(b) |-> b[i]]

\* faulty variant: the port read as little-endian
RECURSIVE from_bytes_little(_)
from_bytes_little(b) ==
  IF b = <<>> THEN 0
  ELSE b[1] + 256 * from_bytes_little(SubSeq(b, 2, Len(b)))

\* int.from_bytes(port_bytes, 'big'); 0 for b''
RECURSIVE from_bytes(_)
from_bytes(b) ==
  IF b = <<>> THEN 0
  ELSE 256 * from_bytes(SubSeq(b, 1, Len(b) - 1)) + b[Len(b)]

\* ------------------------------------------- ForwardServer.handle_socks
\* faulty variant: the exception is swallowed where it is raised
Raised_swallowed(c, h) ==
  [h EXCEPT !.pc = IF @ \in {"select", "client_recv", "channel_send",
                              "channel_recv", "client_send"}
                     THEN "is_active" ELSE "finally",
            !.exc = TRUE]

\* an exception reaches "except Exception: pass", then the finally block
Raised(c, h) == [h EXCEPT !.pc = "finally", !.exc = TRUE]

\* "client_sock.close(); return" inside the try: the finally block follows
\* faulty variant: a malformed message makes the handler wait for a new greeting
Rejected_retry(c, h) == [h EXCEPT !.pc = "greeting"]

\* faulty variant: a message that came short is waited for again
Rejected_wait(c, h) ==
  [h EXCEPT !.pc = IF @ = "request" THEN "request" ELSE "finally"]

Rejected(c, h) == [h EXCEPT !.pc = "finally"]

Consumed(c, data) == [client_sock EXCEPT ![c].rd = @ + Len(data)]
ConsumedClosed(c, data) ==
  [client_sock EXCEPT ![c].rd = @ + Len(data), ![c].closed = TRUE]

Read(c, data) == [hist EXCEPT ![c].reads = Append(@, data)]

\* data = client_sock.recv(262); reject unless a SOCKS5 greeting
recv_greeting(c) ==
  /\ handler[c].pc = "greeting"
  /\ \E data \in recv(c, GreetingBuf) :
       /\ hist' = Read(c, data)
       /\ IF data = RAISE
            THEN /\ handler' = [handler EXCEPT ![c] = Raised(c, @)]
                 /\ UNCHANGED client_sock
          ELSE IF greeting_rejected(data)
            THEN /\ handler' = [handler EXCEPT ![c] = Rejected(c, [@ EXCEPT !.data = data])]
                 /\ client_sock' = ConsumedClosed(c, data)
          ELSE /\ handler' = [handler EXCEPT ![c].pc = "greeting_reply", ![c].data = data]
               /\ client_sock' = Consumed(c, data)
  /\ UNCHANGED <<run_pc, transport_active, client, channel, main_pc, accept_exc>>
  /\ UNCHANGED faults

\* client_sock.send(b'\x05\x00')
send_greeting_reply(c) ==
  /\ handler[c].pc = "greeting_reply"
  /\ \E ok \in send(c) :
       IF ok
         THEN /\ client_sock' = [client_sock EXCEPT ![c].sent = @ \o GreetingReply]
              /\ handler' = [handler EXCEPT ![c].pc = "request"]
         ELSE /\ handler' = [handler EXCEPT ![c] = Raised(c, @)]
              /\ UNCHANGED client_sock
  /\ UNCHANGED <<run_pc, transport_active, client, channel, hist, main_pc, accept_exc>>
  /\ UNCHANGED faults

\* faulty variant: address type 4 is read like an IPv4 address
address_step_ipv6(atyp) ==
  IF atyp = ATYP_IPV4 \/ atyp = 4 THEN "ipv4"
  ELSE IF atyp = ATYP_DOMAIN THEN "domain_len"
  ELSE "finally"

\* where the handler goes for atyp = data[3]
address_step(atyp) ==
  IF atyp = ATYP_IPV4 THEN "ipv4"
  ELSE IF atyp = ATYP_DOMAIN THEN "domain_len"
  ELSE "finally"

\* data = client_sock.recv(4); command and address type
recv_request(c) ==
  /\ handler[c].pc = "request"
  /\ \E data \in recv(c, RequestLen) :
       /\ hist' = Read(c, data)
       /\ IF data = RAISE
            THEN /\ handler' = [handler EXCEPT ![c] = Raised(c, @)]
                 /\ UNCHANGED client_sock
          ELSE IF request_rejected(data) \/ address_step(data[4]) = "finally"
            THEN /\ handler' = [handler EXCEPT ![c] = Rejected(c, [@ EXCEPT !.data = data])]
                 /\ client_sock' = ConsumedClosed(c, data)
          ELSE /\ handler' = [handler EXCEPT ![c].pc = address_step(data[4]),
                                              ![c].data = data]
               /\ client_sock' = Consumed(c, data)
  /\ UNCHANGED <<run_pc, transport_active, client, channel, main_pc, accept_exc>>
  /\ UNCHANGED faults

\* addr_bytes = client_sock.recv(4); addr = socket.inet_ntoa(addr_bytes)
recv_ipv4(c) ==
  /\ handler[c].pc = "ipv4"
  /\ \E addr_bytes \in recv(c, IPv4Len) :
       /\ hist' = Read(c, addr_bytes)
       /\ IF addr_bytes = RAISE
            THEN /\ handler' = [handler EXCEPT ![c] = Raised(c, @)]
                 /\ UNCHANGED client_sock
          ELSE /\ client_sock' = Consumed(c, addr_bytes)
               /\ IF inet_ntoa(addr_bytes) = RAISE
                    THEN handler' = [handler EXCEPT ![c] = Raised(c, @)]
                    ELSE handler' = [handler EXCEPT ![c].pc = "port",
                                       ![c].addr = inet_ntoa(addr_bytes)]
  /\ UNCHANGED <<run_pc, transport_active, client, channel, main_pc, accept_exc>>
  /\ UNCHANGED faults

\* addr_len = client_sock.recv(1)[0]
recv_domain_len(c) ==
  /\ handler[c].pc = "domain_len"
  /\ \E b \in recv(c, 1) :
       /\ hist' = Read(c, b)
       /\ IF b = RAISE \/ b = <<>>
            THEN /\ handler' = [handler EXCEPT ![c] = Raised(c, @)]
                 /\ UNCHANGED client_sock
            ELSE /\ client_sock' = Consumed(c, b)
                 /\ handler' = [handler EXCEPT ![c].pc = "domain",
                                                ![c].addr_len = b[1]]
  /\ UNCHANGED <<run_pc, transport_active, client, channel, main_pc, accept_exc>>
  /\ UNCHANGED faults

\* addr = client_sock.recv(addr_len).decode('utf-8')
recv_domain(c) ==
  /\ handler[c].pc = "domain"
  /\ \E b \in recv(c, handler[c].addr_len) :
       /\ hist' = Read(c, b)
       /\ IF b = RAISE
            THEN /\ handler' = [handler EXCEPT ![c] = Raised(c, @)]
                 /\ UNCHANGED client_sock
            ELSE /\ client_sock' = Consumed(c, b)
                 /\ IF decode(b) = RAISE
                      THEN handler' = [handler EXCEPT ![c] = Raised(c, @)]
                      ELSE handler' = [handler EXCEPT ![c].pc = "port",
                                         ![c].addr = decode(b)]
  /\ UNCHANGED <<run_pc, transport_active, client, channel, main_pc, accept_exc>>
  /\ UNCHANGED faults

\* port_bytes = client_sock.recv(2); port = int.from_bytes(port_bytes, 'big')
recv_port(c) ==
  /\ handler[c].pc = "port"
  /\ \E port_bytes \in recv(c, PortLen) :
       /\ hist' = Read(c, port_bytes)
       /\ IF port_bytes = RAISE
            THEN /\ handler' = [handler EXCEPT ![c] = Raised(c, @)]
                 /\ UNCHANGED client_sock
            ELSE /\ client_sock' = Consumed(c, port_bytes)
                 /\ handler' = [handler EXCEPT ![c].pc = "open_channel",
                                                ![c].port = from_bytes(port_bytes)]
  /\ UNCHANGED <<run_pc, transport_active, client, channel, main_pc, accept_exc>>
  /\ UNCHANGED faults


\* channel = self.transport.open_channel('direct-tcpip', (addr, port), ...)
\* returns a channel or raises; it raises when the transport is not active.
\* The remote end names the initial send window of the channel.
open_channel(c) ==
  /\ handler[c].pc = "open_channel"
  /\ \E ok \in (IF transport_active THEN Outcomes ELSE {FALSE}) :
       /\ faults' = (IF transport_active THEN After(ok) ELSE faults)
       /\ hist' = [hist EXCEPT ![c].opens = @ + 1,
                               ![c].dest = <<handler[c].addr, handler[c].port>>]
       /\ IF ok
            THEN /\ \E w \in (IF faults = 0 THEN {MaxWindow} ELSE 1..MaxWindow) :
                      channel' = [channel EXCEPT ![c].state = "open",
                                                 ![c].window = w]
                 /\ handler' = [handler EXCEPT ![c].pc = "success_reply"]
            ELSE /\ handler' = [handler EXCEPT ![c].pc = "failure_reply"]
                 /\ UNCHANGED channel
  /\ UNCHANGED <<run_pc, transport_active, client, client_sock, main_pc, accept_exc>>

\* except: client_sock.send(b'\x05\x05...'); client_sock.close(); return
send_failure_reply(c) ==
  /\ handler[c].pc = "failure_reply"
  /\ \E ok \in send(c) :
       IF ok
         THEN /\ client_sock' = [client_sock EXCEPT ![c].sent = @ \o FailureReply,
                                                    ![c].closed = TRUE]
              /\ handler' = [handler EXCEPT ![c] = Rejected(c, @)]
         ELSE /\ handler' = [handler EXCEPT ![c] = Raised(c, @)]
              /\ UNCHANGED client_sock
  /\ UNCHANGED <<run_pc, transport_active, client, channel, hist, main_pc, accept_exc>>
  /\ UNCHANGED faults

\* client_sock.send(b'\x05\x00...'), then the relay loop is entered
send_success_reply(c) ==
  /\ handler[c].pc = "success_reply"
  /\ \E ok \in send(c) :
       IF ok
         THEN /\ client_sock' = [client_sock EXCEPT ![c].sent = @ \o SuccessReply]
              /\ handler' = [handler EXCEPT ![c].pc = "select"]
              /\ hist' = [hist EXCEPT ![c].relay_from = client_sock[c].rd]
         ELSE /\ handler' = [handler EXCEPT ![c] = Raised(c, @)]
              /\ UNCHANGED <<client_sock, hist>>
  /\ UNCHANGED <<run_pc, transport_active, client, channel, main_pc, accept_exc>>
  /\ UNCHANGED faults

\* what select finds readable.  A dead transport closes its channels, which
\* makes them readable, but is_active() may turn false before that.
readable(c) ==
  LET cs == IF Avail(c) > 0 \/ client[c].state \in {"closed", "reset"}
              THEN {"client_sock"} ELSE {}
      ch == IF channel[c].rwritten > channel[c].rd \/ channel[c].remote = "eof"
              THEN {"channel"} ELSE {}
  IN  {cs \cup ch} \cup (IF transport_active THEN {} ELSE {cs \cup {"channel"}})

\* faulty variant: a select that timed out goes straight to the next select
after_select_continue(r) ==
  IF "client_sock" \in r THEN "client_recv"
  ELSE IF "channel" \in r THEN "channel_recv"
  ELSE "select"

\* the first statement of the iteration that runs after select returned r
after_select(r) ==
  IF "client_sock" \in r THEN "client_recv"
  ELSE IF "channel" \in r THEN "channel_recv"
  ELSE "is_active"

\* faulty variant: the channel is looked at only when the client had nothing
after_client_elif(r) == "is_active"

\* the statement after the client_sock branch of the iteration
after_client(r) == IF "channel" \in r THEN "channel_recv" ELSE "is_active"

\* the bytes the handler has read and written so far, on both ends
io(c) == <<client_sock[c].rd, Len(client_sock[c].sent),
           channel[c].rd, Len(channel[c].sent)>>

\* the relay loop is left, by a zero-length read or by an exception
Left(c, cause) == [hist EXCEPT ![c].left = <<cause, io(c)>>]

\* a chunk was forwarded, to the channel (1) or to the client (2), in the
\* current iteration; counted as well when the transport was dead already
Forwarded(c, direction) ==
  [hist EXCEPT ![c].serviced = @ \cup {direction},
               ![c].dead_chunks[direction] =
                   IF transport_active THEN @ ELSE Min(@ + 1, 2)]

\* r, w, x = select.select([client_sock, channel], [], [], 1.0): returns
\* what is readable, or nothing when the second has passed
select(c) ==
  /\ handler[c].pc = "select"
  /\ \/ /\ \E r \in readable(c) :
             handler' = [handler EXCEPT ![c].r = r, ![c].pc = after_select(r)]
        /\ hist' = [hist EXCEPT
               ![c].dead_selects = IF transport_active THEN @ ELSE Min(@ + 1, 2),
               ![c].eof_select = @ \/ (client[c].state = "closed" /\ Avail(c) = 0),
               ![c].unchecked = TRUE,
               ![c].serviced = {}]
     \/ /\ ~transport_active
        /\ handler' = [handler EXCEPT ![c] = Raised(c, @)]
        /\ hist' = Left(c, "error")
  /\ UNCHANGED <<run_pc, transport_active, client, client_sock, channel, main_pc,
                 accept_exc, faults>>

\* faulty variant: an empty read is forwarded like any other
after_client_recv_noeof(data, r) == "channel_send"

\* faulty variant: an empty read only ends the client's direction
after_client_recv_halfclose(data, r) ==
  IF Len(data) = 0 THEN after_client(r) ELSE "channel_send"

\* "if len(data) == 0: break", else channel.send(data)
after_client_recv(data, r) == IF Len(data) = 0 THEN "finally" ELSE "channel_send"

\* data = client_sock.recv(8192); break on b''
client_recv(c) ==
  /\ handler[c].pc = "client_recv"
  /\ \E data \in recv(c, RelayBuf) :
       IF data = RAISE
         THEN /\ handler' = [handler EXCEPT ![c] = Raised(c, @)]
              /\ hist' = Left(c, "error")
              /\ UNCHANGED client_sock
         ELSE /\ handler' = [handler EXCEPT
                    ![c].pc = after_client_recv(data, handler[c].r),
                    ![c].data = data]
              /\ hist' = IF Len(data) = 0 THEN Left(c, "eof") ELSE hist
              /\ client_sock' = Consumed(c, data)
  /\ UNCHANGED <<run_pc, transport_active, client, channel, main_pc, accept_exc,
                 faults>>

\* how many bytes of data paramiko's Channel.send takes: what fits in the
\* send window; the caller is told the number and the rest is not queued
accepted_by_channel(data, window) == Min(Len(data), window)

\* channel.send(data), the return value is dropped.  The call waits while the
\* window is empty and raises on a closed channel.
channel_send(c) ==
  /\ handler[c].pc = "channel_send"
  /\ \/ /\ transport_active
        /\ channel[c].window > 0
        /\ LET n == accepted_by_channel(handler[c].data, channel[c].window)
           IN  channel' = [channel EXCEPT
                  ![c].sent = @ \o SubSeq(handler[c].data, 1, n),
                  ![c].window = @ - n]
        /\ handler' = [handler EXCEPT ![c].pc = after_client(handler[c].r)]
        /\ hist' = Forwarded(c, 1)
     \/ /\ ~transport_active \/ channel[c].remote = "eof"
        /\ handler' = [handler EXCEPT ![c] = Raised(c, @)]
        /\ hist' = Left(c, "error")
        /\ UNCHANGED channel
  /\ UNCHANGED <<run_pc, transport_active, client, client_sock, main_pc,
                 accept_exc, faults>>

\* "if len(data) == 0: break", else client_sock.send(data)
after_channel_recv(data) == IF Len(data) = 0 THEN "finally" ELSE "client_send"

\* data = channel.recv(8192); break on b''.  A channel that the remote end
\* or the transport closed returns b'' once its buffer is empty.
channel_recv(c) ==
  /\ handler[c].pc = "channel_recv"
  /\ \/ LET avail == channel[c].rwritten - channel[c].rd
            data  == SubSeq(RemoteData, channel[c].rd + 1,
                            channel[c].rd + Min(RelayBuf, avail))
        IN  /\ avail > 0 \/ channel[c].remote = "eof" \/ ~transport_active
            /\ channel' = [channel EXCEPT ![c].rd = @ + Len(data)]
            /\ handler' = [handler EXCEPT ![c].pc = after_channel_recv(data),
                                           ![c].data = data]
            /\ hist' = IF Len(data) = 0 THEN Left(c, "eof") ELSE hist
     \/ /\ ~transport_active
        /\ handler' = [handler EXCEPT ![c] = Raised(c, @)]
        /\ hist' = Left(c, "error")
        /\ UNCHANGED channel
  /\ UNCHANGED <<run_pc, transport_active, client, client_sock, main_pc,
                 accept_exc, faults>>

\* client_sock.send(data); the call waits while the client does not read
\* and the buffers between the two are full
client_send(c) ==
  /\ handler[c].pc = "client_send"
  /\ \E ok \in send(c) :
       IF ok
         THEN /\ ~client[c].stalled
              /\ client_sock' = [client_sock EXCEPT ![c].sent = @ \o handler[c].data]
              /\ handler' = [handler EXCEPT ![c].pc = "is_active"]
              /\ hist' = Forwarded(c, 2)
         ELSE /\ handler' = [handler EXCEPT ![c] = Raised(c, @)]
              /\ hist' = Left(c, "error")
              /\ UNCHANGED client_sock
  /\ UNCHANGED <<run_pc, transport_active, client, channel, main_pc, accept_exc,
                 faults>>

\* faulty variant: the loop never looks at is_active()
after_is_active_unchecked(active) == "select"

\* where the loop goes after "if not self.transport.is_active(): break"
after_is_active(active) == IF active THEN "select" ELSE "finally"

\* if not self.transport.is_active(): break
is_active(c) ==
  /\ handler[c].pc = "is_active"
  /\ handler' = [handler EXCEPT ![c].pc = after_is_active(transport_active)]
  /\ hist' = [(IF transport_active THEN hist ELSE Left(c, "dead"))
                 EXCEPT ![c].unchecked = FALSE]
  /\ UNCHANGED <<run_pc, transport_active, client, client_sock, channel, main_pc,
                 accept_exc, faults>>

\* faulty variant: both closes in one try block
closed_channel_skipped(ch, client_error) ==
  IF ch.state = "open" /\ ~client_error THEN [ch EXCEPT !.state = "closed"] ELSE ch

\* the channel after "try: channel.close() except: pass"; client_error says
\* whether client_sock.close() raised just before
closed_channel(ch, client_error) ==
  IF ch.state = "open" THEN [ch EXCEPT !.state = "closed"] ELSE ch

\* faulty variant: the finally block closes every channel of the transport
closes_all(c) == Conns

\* the connections whose channel the finally block of handler c closes:
\* channel is a local variable of the call
closes(c) == {c}

\* faulty variant: the closes are not wrapped in try/except
after_finally_unguarded(e1, e2) == IF e1 \/ e2 THEN "escaped" ELSE "done"

\* how the thread ends after the two closes, e1 and e2 saying which of them
\* raised: each is wrapped in "try: ... except: pass"
after_finally(e1, e2) == "done"

\* finally: close client_sock, close channel, each error swallowed.  With
\* no channel bound, channel.close() is a NameError, swallowed as well.
finally(c) ==
  /\ handler[c].pc = "finally"
  /\ \E e1 \in {~ok : ok \in Outcomes},
        e2 \in (IF channel[c].state = "unbound" THEN {TRUE}
                ELSE {~ok : ok \in Outcomes}) :
       /\ faults' = After(~e1 /\ (~e2 \/ channel[c].state = "unbound"))
       /\ client_sock' = [client_sock EXCEPT ![c].closed = TRUE]
       /\ channel' = [d \in Conns |-> IF d \in closes(c)
                                         THEN closed_channel(channel[d], e1)
                                         ELSE channel[d]]
       /\ hist' = [hist EXCEPT ![c].close_errors =
                     (IF e1 THEN {"client_sock"} ELSE {}) \cup
                     (IF e2 THEN {"channel"} ELSE {})]
       /\ handler' = [handler EXCEPT ![c].pc = after_finally(e1, e2)]
  /\ UNCHANGED <<run_pc, transport_active, client, main_pc, accept_exc>>

handle_socks(c) ==
  \/ recv_greeting(c) \/ send_greeting_reply(c) \/ recv_request(c)
  \/ recv_ipv4(c) \/ recv_domain_len(c) \/ recv_domain(c) \/ recv_port(c)
  \/ open_channel(c) \/ send_failure_reply(c) \/ send_success_reply(c)
  \/ select(c) \/ client_recv(c) \/ channel_send(c) \/ channel_recv(c)
  \/ client_send(c) \/ is_active(c) \/ finally(c)

Environment(c) ==
  \/ ClientConnect(c) \/ ClientWrite(c) \/ ClientClose(c) \/ ClientReset(c)
  \/ ClientStall(c) \/ ClientResume(c)
  \/ RemoteWrite(c) \/ RemoteEof(c) \/ WindowAdjust(c)

Next ==
  \/ main
  \/ run
  \/ TransportDies
  \/ \E c \in Conns : Environment(c)
  \/ \E c \in Conns : handle_socks(c)

Spec == Init /\ [][Next]_vars

SpecConc == InitConc /\ [][Next]_vars

\* one client, and a handler thread that is scheduled: a handler that can
\* take a step eventually takes one.  Nothing is assumed of the clients, the
\* remote ends and the transport.
InitLive ==
  /\ \E m \in ConcMessages :
       InitWith([c \in Conns |-> IF c = 1 THEN [msgs |-> m, sync |-> TRUE]
                                           ELSE Absent])
  /\ faults = MaxFaults + 1

SpecLive ==
  InitLive /\ [][Next]_vars /\ \A c \in Conns : WF_vars(handle_socks(c))

TypeOK ==
  /\ run_pc \in {"bind", "accept", "stopped", "crashed"}
  /\ transport_active \in BOOLEAN
  /\ main_pc \in {"start", "join", "exit_0", "exit_1"}
  /\ accept_exc \in {"none", "transient", "fatal", "start"}
  /\ faults \in {Unlimited} \cup (0..MaxFaults + 1)
  /\ \A c \in Conns :
       /\ client[c].state \in {"idle", "open", "closed", "reset"}
       /\ client[c].stalled \in BOOLEAN
       /\ hist[c].eof_select \in BOOLEAN
       /\ Len(hist[c].left) \in {0, 2}
       /\ client_sock[c].rd <= client[c].written
       /\ channel[c].state \in {"unbound", "open", "closed"}
       /\ channel[c].window \in 0..MaxWindow
       /\ channel[c].rd <= channel[c].rwritten


\* ------------------------------------------------------------ properties
RelayPcs == {"select", "client_recv", "channel_send", "channel_recv",
             "client_send", "is_active"}

\* the bytes the client wrote after the handshake bytes the handler consumed
ClientRelayBytes(c) ==
  SubSeq(Bytes(client[c].script), hist[c].relay_from + 1, client[c].written)

\* the bytes the remote end wrote on the channel
RemoteBytes(c) == SubSeq(RemoteData, 1, channel[c].rwritten)

\* the bytes the client was sent after the greeting reply and a reply frame
Relayed(c) == SubSeq(client_sock[c].sent, 13, Len(client_sock[c].sent))

OpenFailed(c) == hist[c].opens > 0 /\ channel[c].state = "unbound"

\* C1: once open_channel has succeeded, the client is sent the 2-byte
\* greeting reply, then exactly 05 00 00 01 00 00 00 00 00 00, then only
\* bytes read from the channel: the handler is in the relay loop, and a
\* byte has moved in either direction, only after that frame was sent.
C1_SuccessReplyBeforeRelay ==
  \A c \in Conns :
    LET frame == <<5, 0>> \o <<5, 0, 0, 1, 0, 0, 0, 0, 0, 0>>
    IN  /\ handler[c].pc \in RelayPcs =>
             channel[c].state = "open" /\ IsPrefix(frame, client_sock[c].sent)
        /\ channel[c].sent # <<>> \/ channel[c].rd > 0 =>
             IsPrefix(frame, client_sock[c].sent)
        /\ channel[c].state # "unbound" =>
             \/ client_sock[c].sent = <<5, 0>>
             \/ \E k \in 0..channel[c].rd :
                  client_sock[c].sent = frame \o SubSeq(RemoteData, 1, k)

C1_Witness ==
  \E c \in Conns :
    /\ handler[c].pc \in RelayPcs
    /\ channel[c].sent # <<>>
    /\ Len(client_sock[c].sent) > 12

\* C2: once open_channel has failed, the handler sends the client exactly
\* 05 05 00 01 00 00 00 00 00 00 after the greeting reply and closes the
\* client socket (when the send raises, nothing is sent); it never enters
\* the relay loop and no byte is relayed.
C2_FailureReplyThenClose ==
  \A c \in Conns :
    OpenFailed(c) =>
      /\ handler[c].pc \in {"failure_reply", "finally", "done"}
      /\ handler[c].pc = "failure_reply" =>
           client_sock[c].sent = <<5, 0>> /\ ~client_sock[c].closed
      /\ handler[c].pc # "failure_reply" /\ ~handler[c].exc =>
           /\ client_sock[c].sent = <<5, 0>> \o <<5, 5, 0, 1, 0, 0, 0, 0, 0, 0>>
           /\ client_sock[c].closed
      /\ handler[c].exc => client_sock[c].sent = <<5, 0>>
      /\ handler[c].pc = "done" => client_sock[c].closed
      /\ channel[c].sent = <<>> /\ channel[c].rd = 0

C2_Witness ==
  \E c \in Conns :
    OpenFailed(c) /\ handler[c].pc = "done" /\ ~handler[c].exc

\* C3: during relaying the bytes written to the channel are a prefix of the
\* bytes the client wrote, the bytes written to the client after the success
\* frame are a prefix of the bytes the remote end wrote, and every chunk the
\* loop read from the client has been forwarded completely once its send
\* has returned.
C3_ByteExactRelay ==
  \A c \in Conns :
    channel[c].state # "unbound" /\ Len(client_sock[c].sent) >= 12 =>
      /\ IsPrefix(channel[c].sent, ClientRelayBytes(c))
      /\ IsPrefix(Relayed(c), RemoteBytes(c))
      /\ handler[c].pc \in RelayPcs \ {"channel_send"} =>
           channel[c].sent = SubSeq(Bytes(client[c].script),
                                    hist[c].relay_from + 1, client_sock[c].rd)

\* C4: a greeting read of fewer than 2 bytes, or whose first byte is not
\* 5, closes the client socket; nothing at all is sent to the client and no
\* channel is opened.
C4_BadGreetingSilent ==
  \A c \in Conns :
    LET reads == hist[c].reads
    IN  ( /\ Len(reads) >= 1
          /\ reads[1] # RAISE
          /\ (Len(reads[1]) < 2 \/ reads[1][1] # 5) ) =>
            /\ client_sock[c].closed
            /\ client_sock[c].sent = <<>>
            /\ hist[c].opens = 0
            /\ channel[c].state = "unbound"
            /\ handler[c].pc \in {"finally", "done"}

C4_Witness ==
  \E c \in Conns :
    /\ handler[c].pc = "done"
    /\ Len(hist[c].reads) = 1
    /\ Len(hist[c].reads[1]) >= 2
    /\ hist[c].reads[1][1] = 4

\* C5: a 4-byte request whose command byte is not 1 (CONNECT) closes the
\* client socket; after the greeting reply no reply frame is sent and
\* open_channel is not called.
C5_NonConnectSilent ==
  \A c \in Conns :
    LET reads == hist[c].reads
    IN  ( /\ Len(reads) >= 2
          /\ Len(reads[2]) = 4
          /\ reads[2][2] # 1 ) =>
            /\ client_sock[c].closed
            /\ client_sock[c].sent = <<5, 0>>
            /\ hist[c].opens = 0
            /\ channel[c].state = "unbound"
            /\ handler[c].pc \in {"finally", "done"}

C5_Witness ==
  \E c \in Conns :
    /\ handler[c].pc = "done"
    /\ Len(hist[c].reads) = 2
    /\ Len(hist[c].reads[2]) = 4
    /\ hist[c].reads[2][2] = 2

\* C6: a CONNECT request whose address type is 4 (IPv6) or anything else
\* than 1 and 3 closes the client socket; after the greeting reply no reply
\* frame is sent and open_channel is not called.
C6_BadAddressTypeSilent ==
  \A c \in Conns :
    LET reads == hist[c].reads
    IN  ( /\ Len(reads) >= 2
          /\ Len(reads[2]) = 4
          /\ reads[2][2] = 1
          /\ reads[2][4] \notin {1, 3} ) =>
            /\ client_sock[c].closed
            /\ client_sock[c].sent = <<5, 0>>
            /\ hist[c].opens = 0
            /\ channel[c].state = "unbound"
            /\ handler[c].pc \in {"finally", "done"}

C6_Witness ==
  \E c \in Conns :
    /\ handler[c].pc = "done"
    /\ Len(hist[c].reads) = 2
    /\ Len(hist[c].reads[2]) = 4
    /\ hist[c].reads[2][2] = 1
    /\ hist[c].reads[2][4] = 4

\* C7: when a read of the handshake (greeting, request header, address,
\* domain length, domain bytes, port) returned no byte or raised, no reply
\* frame is sent, open_channel is not called, and the terminated handler has
\* closed the client socket.
C7_EmptyReadRejects ==
  \A c \in Conns :
    (\E i \in 1..Len(hist[c].reads) : hist[c].reads[i] \in {<<>>, RAISE}) =>
       /\ hist[c].opens = 0
       /\ client_sock[c].sent \in {<<>>, <<5, 0>>}
       /\ handler[c].pc = "done" => client_sock[c].closed

\* C8: a terminated handler has closed the client socket and, if it opened
\* a channel, the channel, whatever the exit path and whichever close raised.
C8_ClosedOnEveryExit ==
  \A c \in Conns :
    handler[c].pc = "done" =>
      client_sock[c].closed /\ channel[c].state # "open"

C8_Witness ==
  \E c \in Conns :
    /\ handler[c].pc = "done"
    /\ channel[c].state = "closed"
    /\ "client_sock" \in hist[c].close_errors

\* the handshake reads of a connection are those of a complete handshake
HandshakeComplete(reads) ==
  /\ Len(reads) >= 4
  /\ \A i \in 1..Len(reads) : reads[i] # RAISE
  /\ Len(reads[1]) >= 2 /\ reads[1][1] = 5
  /\ Len(reads[2]) = 4 /\ reads[2][2] = 1
  /\ \/ /\ reads[2][4] = 1
        /\ Len(reads) = 4
        /\ Len(reads[3]) = 4
     \/ /\ reads[2][4] = 3
        /\ Len(reads) = 5
        /\ Len(reads[3]) = 1
        /\ Len(reads[4]) = reads[3][1]
  /\ Len(reads[Len(reads)]) = 2

\* C9: a connection has at most one channel, and open_channel is called
\* only after a complete handshake: valid greeting, CONNECT, address type 1
\* or 3, address and port read in full.
C9_OneCircuitAfterHandshake ==
  \A c \in Conns :
    /\ hist[c].opens <= 1
    /\ hist[c].opens > 0 => HandshakeComplete(hist[c].reads)

\* C10: once the transport is not active, a relay loop returns from select
\* at most once more and does not start another iteration after that; the
\* terminated handler has closed the client socket and the channel.
C10_DeadTransportStopsRelay ==
  \A c \in Conns :
    /\ hist[c].dead_selects <= 1
    /\ hist[c].dead_selects >= 1 => handler[c].pc # "select"
    /\ hist[c].dead_selects >= 1 /\ handler[c].pc = "done" =>
         client_sock[c].closed /\ channel[c].state = "closed"

\* select timed out with nothing readable on a dead transport
C10_Witness ==
  \E c \in Conns :
    /\ hist[c].dead_selects = 1
    /\ handler[c].r = {}
    /\ handler[c].pc = "done"
    /\ ~handler[c].exc

\* C11: when the client closes its connection and has no data left for the
\* handler, the select that reports the closed socket is followed by the
\* empty read and by no other step of the loop: the loop ends within that
\* one iteration, and the terminated handler has closed the client socket
\* and the channel.
C11_ClientEofEndsRelay ==
  \A c \in Conns :
    hist[c].eof_select =>
      /\ handler[c].pc \in {"client_recv", "finally", "done"}
      /\ handler[c].pc # "client_recv" =>
           /\ Len(hist[c].left) = 2
           /\ hist[c].left[2] = io(c)
      /\ handler[c].pc = "done" =>
           client_sock[c].closed /\ channel[c].state = "closed"

\* the client closed right after the CONNECT request, without any payload
C11_Witness ==
  \E c \in Conns :
    /\ hist[c].eof_select
    /\ handler[c].pc = "done"
    /\ hist[c].left[1] = "eof"
    /\ client_sock[c].rd = hist[c].relay_from
    /\ client[c].written = hist[c].relay_from
    /\ channel[c].sent = <<>>

\* C13: when every read of the handshake returned all the bytes it asked
\* for, the destination passed to open_channel is the decoding of the
\* request: 10.0.0.1 in dotted decimal for the address bytes 0a 00 00 01,
\* the L domain bytes as text for address type 3 ("example.com" for length
\* 11 and those bytes), and the port is the 2 bytes that follow, big-endian.
C13_DestinationDecoded ==
  \A c \in Conns :
    hist[c].opens > 0 /\ HandshakeComplete(hist[c].reads) =>
      LET reads == hist[c].reads
          host  == hist[c].dest[1]
          port  == hist[c].dest[2]
          pb    == reads[Len(reads)]
      IN  /\ port = 256 * pb[1] + pb[2]
          /\ pb = <<0, 80>> => port = 80
          /\ reads[2][4] = 1 /\ reads[3] = <<10, 0, 0, 1>> =>
               host = <<49, 48, 46, 48, 46, 48, 46, 49>>
          /\ reads[2][4] = 3 =>
               /\ Len(host) = reads[3][1]
               /\ \A i \in 1..Len(host) : host[i] = reads[4][i]
          /\ reads[2][4] = 3 /\ reads[3] = <<11>> /\ reads[4][1] = 101 =>
               host = <<101, 120, 97, 109, 112, 108, 101, 46, 99, 111, 109>>

\* example.com:80 was passed to open_channel
C13_Witness ==
  \E c \in Conns :
    /\ hist[c].opens > 0
    /\ HandshakeComplete(hist[c].reads)
    /\ hist[c].reads[3] = <<11>>
    /\ hist[c].dest[2] = 80

\* the greeting read starts with version 5 and has at least 2 bytes
GoodGreeting(reads) ==
  /\ Len(reads) >= 1
  /\ reads[1] # RAISE
  /\ Len(reads[1]) >= 2
  /\ reads[1][1] = 5

\* the methods a greeting offers: the bytes after the count
NoAuthOffered(greeting) == \E i \in 3..Len(greeting) : greeting[i] = 0

\* C14: after a greeting with version byte 5 and at least 2 bytes, whatever
\* its methods, the first thing the client is sent is 05 00, and the handler
\* goes on to read the request: it ends before that read only when sending
\* the reply raised.
C14_GreetingAlwaysAccepted ==
  \A c \in Conns :
    GoodGreeting(hist[c].reads) =>
      /\ client_sock[c].sent = <<>> \/ IsPrefix(<<5, 0>>, client_sock[c].sent)
      /\ client_sock[c].sent = <<>> =>
           \/ handler[c].pc = "greeting_reply"
           \/ handler[c].exc /\ Len(hist[c].reads) = 1
      /\ Len(hist[c].reads) = 1 /\ handler[c].pc \in {"finally", "done"} =>
           handler[c].exc
      /\ Len(hist[c].reads) >= 2 => IsPrefix(<<5, 0>>, client_sock[c].sent)

\* a greeting with a method count of 0 was answered and the request read
C14_Witness ==
  \E c \in Conns :
    /\ Len(hist[c].reads) >= 2
    /\ hist[c].reads[1] = <<5, 0>>
    /\ client_sock[c].sent = <<5, 0>>

\* C15 as stated: a greeting of version 5 that does not offer method 0 gets
\* no reply at all and no channel, and its connection is closed.
C15_DisallowedMethodsSilent ==
  \A c \in Conns :
    GoodGreeting(hist[c].reads) /\ ~NoAuthOffered(hist[c].reads[1]) =>
      /\ client_sock[c].sent = <<>>
      /\ hist[c].opens = 0
      /\ handler[c].pc \in {"greeting_reply", "finally", "done"}

\* C15, amended: a greeting of version 5 that does not offer method 0 is
\* treated like any other: unless sending 05 00 raises, the handler sends
\* 05 00, reads the request and serves it; the connection is not closed on
\* account of the methods.
C15_DisallowedMethodsServed ==
  \A c \in Conns :
    GoodGreeting(hist[c].reads) /\ ~NoAuthOffered(hist[c].reads[1]) =>
      /\ handler[c].pc \in {"finally", "done"} /\ ~handler[c].exc =>
           Len(hist[c].reads) >= 2 /\ IsPrefix(<<5, 0>>, client_sock[c].sent)
      /\ handler[c].pc \notin {"greeting_reply", "finally", "done"} =>
           IsPrefix(<<5, 0>>, client_sock[c].sent)
      /\ hist[c].opens > 0 => hist[c].reads[2][2] = 1

\* a client that offered only username/password got its channel
C15_Witness ==
  \E c \in Conns :
    /\ hist[c].opens > 0
    /\ hist[c].reads[1] = <<5, 1, 2>>
    /\ channel[c].state = "open"
    /\ Len(client_sock[c].sent) >= 12

\* C16: after an accept error that is not fatal to the listening socket the
\* accept loop is still accepting; it has stopped only after an error of
\* the listening socket itself.
C16_TransientAcceptErrorContinues ==
  /\ accept_exc \in {"transient", "start"} => run_pc = "accept"
  /\ run_pc = "stopped" => accept_exc = "fatal"

\* C18: after a failed bind the accept loop is never entered, no connection
\* is handled, and the process that started the server does not complete
\* normally: it does not exit with status 0.
C18_BindFailureReported ==
  run_pc = "crashed" =>
    /\ \A c \in Conns : handler[c].pc = "unborn"
    /\ accept_exc = "none"
    /\ main_pc # "exit_0"

\* C19: once a call of the relay loop (select, a recv or a send on either
\* end) has raised, the handler is in its finally block or has terminated,
\* it has read and written nothing since on either end (no relayed byte, no
\* reply frame), and the terminated handler has closed the client socket
\* and the channel.
C19_RelayErrorEndsLoop ==
  \A c \in Conns :
    Len(hist[c].left) = 2 /\ hist[c].left[1] = "error" =>
      /\ handler[c].pc \in {"finally", "done"}
      /\ handler[c].exc
      /\ io(c) = hist[c].left[2]
      /\ handler[c].pc = "done" =>
           client_sock[c].closed /\ channel[c].state = "closed"

\* a send to the client raised after bytes had gone both ways, with data of
\* the remote end still unread
C19_Witness ==
  \E c \in Conns :
    /\ Len(hist[c].left) = 2
    /\ hist[c].left[1] = "error"
    /\ handler[c].pc = "done"
    /\ channel[c].sent # <<>>
    /\ channel[c].rd > 0
    /\ Len(client_sock[c].sent) = 12

\* C20: once a read of the relay loop has returned no byte, on either end,
\* the handler is in its finally block or has terminated, no byte has been
\* read or forwarded since in either direction, whatever is still pending
\* on the other end, and the terminated handler has closed both ends.
C20_NoHalfClose ==
  \A c \in Conns :
    Len(hist[c].left) = 2 /\ hist[c].left[1] = "eof" =>
      /\ handler[c].pc \in {"finally", "done"}
      /\ ~handler[c].exc
      /\ io(c) = hist[c].left[2]
      /\ handler[c].pc = "done" =>
           client_sock[c].closed /\ channel[c].state = "closed"

\* the client closed while data of the remote end was waiting in the channel
C20_Witness ==
  \E c \in Conns :
    /\ Len(hist[c].left) = 2
    /\ hist[c].left[1] = "eof"
    /\ handler[c].pc = "done"
    /\ client[c].state = "closed"
    /\ handler[c].r = {"client_sock", "channel"}
    /\ channel[c].rwritten > channel[c].rd

\* C12: each handler that relays has a channel of its own, opened by its
\* one open_channel call, and a step of a handler, its closing of the
\* client socket and the channel included, changes nothing of another
\* connection: neither its client socket, nor its channel, nor where its
\* handler is.
C12_IndependentCircuits ==
  /\ [](\A c \in Conns :
          handler[c].pc \in RelayPcs =>
            hist[c].opens = 1 /\ channel[c].state = "open")
  /\ [][\A c \in Conns :
          handle_socks(c) =>
            \A d \in Conns \ {c} :
              /\ client_sock'[d] = client_sock[d]
              /\ channel'[d] = channel[d]
              /\ handler'[d] = handler[d]
              /\ hist'[d] = hist[d]]_vars

\* two connections to the same destination: one handler has closed its
\* client socket and its channel, the other still relays on an open channel
C12_Witness ==
  \E c, d \in Conns :
    /\ c # d
    /\ hist[c].opens = 1 /\ hist[d].opens = 1
    /\ hist[c].dest = hist[d].dest
    /\ handler[c].pc = "done"
    /\ client_sock[c].closed /\ channel[c].state = "closed"
    /\ handler[d].pc \in RelayPcs
    /\ channel[d].state = "open" /\ ~client_sock[d].closed
    /\ channel[d].sent # <<>>

\* handler c is in a call that waits for its own client or its own channel
Blocked(c) ==
  \/ /\ handler[c].pc \in {"greeting", "request", "ipv4", "domain_len", "port",
                           "client_recv"}
     /\ client[c].state = "open" /\ Avail(c) = 0
  \/ /\ handler[c].pc = "domain" /\ handler[c].addr_len > 0
     /\ client[c].state = "open" /\ Avail(c) = 0
  \/ /\ handler[c].pc = "channel_send"
     /\ transport_active /\ channel[c].window = 0 /\ channel[c].remote # "eof"
  \/ /\ handler[c].pc = "channel_recv"
     /\ transport_active /\ channel[c].rwritten = channel[c].rd
     /\ channel[c].remote # "eof"
  \/ /\ handler[c].pc = "client_send"
     /\ client[c].stalled /\ client[c].state = "open"

\* C17: whatever the other connections do, while the accept loop runs a
\* pending connection can be accepted, and a handler that does not wait for
\* its own client or channel can take its next step; a blocked or failed
\* handler holds up nobody else.
C17_NoClientStallsServer ==
  \A c \in Conns :
    /\ run_pc = "accept" /\ client[c].state # "idle" /\ handler[c].pc = "unborn" =>
         ENABLED accept(c)
    /\ handler[c].pc \notin {"unborn", "orphan", "done"} /\ ~Blocked(c) =>
         ENABLED handle_socks(c)

\* one handler waits in its send to a client that stopped reading, another
\* was accepted and relays
C17_Witness ==
  \E c, d \in Conns :
    /\ c # d
    /\ handler[c].pc = "client_send" /\ Blocked(c)
    /\ handler[d].pc \in RelayPcs /\ ~Blocked(d)
    /\ channel[d].sent # <<>>

\* C21: every iteration of the relay loop that does not leave the loop ends
\* with the liveness check, also when select timed out; once the check has
\* found the transport dead the handler is in its finally block or has
\* terminated and has read and written nothing since; and after the
\* transport died at most one chunk is forwarded to the client and at most
\* one to the channel.
C21_LivenessCheckedEveryIteration ==
  \A c \in Conns :
    /\ handler[c].pc = "select" => ~hist[c].unchecked
    /\ handler[c].pc \in RelayPcs \ {"select"} => hist[c].unchecked
    /\ Len(hist[c].left) = 2 /\ hist[c].left[1] = "dead" =>
         /\ handler[c].pc \in {"finally", "done"}
         /\ io(c) = hist[c].left[2]
    /\ hist[c].dead_chunks[1] <= 1
    /\ hist[c].dead_chunks[2] <= 1

\* the check ended the loop while both ends still had data to read, after a
\* last chunk had gone to the client on the dead transport
C21_Witness ==
  \E c \in Conns :
    /\ Len(hist[c].left) = 2
    /\ hist[c].left[1] = "dead"
    /\ handler[c].pc = "done"
    /\ hist[c].dead_chunks[2] = 1
    /\ Avail(c) > 0

\* C22: an iteration in which select reported both ends readable, and which
\* is not left by a zero-length read or an exception, has read one chunk of
\* at most 8192 bytes from the client and handed it to channel.send, and
\* read one chunk of at most 8192 bytes from the channel and sent it to the
\* client, by the time it reaches the liveness check; the client's chunk
\* never sends the loop back to select before the channel's.
C22_BothDirectionsServiced ==
  \A c \in Conns :
    /\ handler[c].pc \in {"channel_send", "client_send"} =>
         Len(handler[c].data) \in 1..RelayBuf
    /\ handler[c].pc \in {"channel_recv", "client_send", "is_active"}
         /\ "client_sock" \in handler[c].r => 1 \in hist[c].serviced
    /\ handler[c].pc = "is_active" /\ "channel" \in handler[c].r =>
         2 \in hist[c].serviced

\* an iteration that moved a chunk each way
C22_Witness ==
  \E c \in Conns :
    /\ handler[c].pc = "is_active"
    /\ handler[c].r = {"client_sock", "channel"}
    /\ hist[c].serviced = {1, 2}
    /\ channel[c].sent # <<>>
    /\ Len(client_sock[c].sent) > 12

\* the place of a handler position in the order of the handshake
StageOf(pc) ==
  CASE pc = "unborn"                            -> 0
    [] pc = "greeting"                          -> 1
    [] pc = "greeting_reply"                    -> 2
    [] pc = "request"                           -> 3
    [] pc \in {"ipv4", "domain_len"}            -> 4
    [] pc = "domain"                            -> 5
    [] pc = "port"                              -> 6
    [] pc = "open_channel"                      -> 7
    [] pc \in {"success_reply", "failure_reply"} -> 8
    [] pc \in RelayPcs                          -> 9
    [] pc = "finally"                           -> 10
    [] OTHER                                    -> 11

\* C23: a handler goes through greeting read, greeting reply, request read,
\* address, port, open_channel, reply and relay in this order, never back
\* and never twice into the same handshake step; the request is read only
\* after the greeting reply was sent, and open_channel is called, at most
\* once, only after the port read.
C23_HandshakeInOrder ==
  /\ [](\A c \in Conns :
          /\ Len(hist[c].reads) >= 2 => IsPrefix(<<5, 0>>, client_sock[c].sent)
          /\ hist[c].opens <= 1
          /\ hist[c].opens = 1 =>
               /\ Len(hist[c].reads) \in {4, 5}
               /\ StageOf(handler[c].pc) >= 7
          /\ StageOf(handler[c].pc) \in 3..7 =>
               Len(hist[c].reads) = StageOf(handler[c].pc) - 2
                 - (IF StageOf(handler[c].pc) >= 6 /\ hist[c].reads[2][4] = 1
                    THEN 1 ELSE 0))
  /\ [][\A c \in Conns :
          /\ handler'[c].pc # handler[c].pc =>
               \/ StageOf(handler'[c].pc) > StageOf(handler[c].pc)
               \/ handler[c].pc \in RelayPcs /\ handler'[c].pc \in RelayPcs
          /\ handle_socks(c) /\ StageOf(handler[c].pc) < 9 =>
               StageOf(handler'[c].pc) > StageOf(handler[c].pc)]_vars

\* a handshake with a domain name went through every step and relays
C23_Witness ==
  \E c \in Conns :
    /\ handler[c].pc \in RelayPcs
    /\ Len(hist[c].reads) = 5
    /\ hist[c].opens = 1
    /\ Len(client_sock[c].sent) >= 12

\* C24: the greeting read consumes the greeting only, 2 + N bytes for a
\* count byte N, and leaves the request bytes the client sent right after
\* it for the request read; a client that writes greeting and CONNECT
\* request together gets its channel.
C24_GreetingReadExact ==
  \A c \in Conns :
    GoodGreeting(hist[c].reads) =>
      Len(hist[c].reads[1]) <= 2 + hist[c].reads[1][2]

\* C25: every connection that accept returned has a handler thread, and
\* once the server process has ended the client socket of every such
\* connection has been closed.
C25_EveryAcceptedDispatched ==
  \A c \in Conns :
    /\ handler[c].pc # "orphan"
    /\ handler[c].pc # "unborn" /\ main_pc = "exit_0" => client_sock[c].closed

\* C26: whatever raised in the handler (a recv, a send, open_channel,
\* select) and whichever close raised in the finally block, a channel that
\* was never bound and a client socket that was closed before included, the
\* handler is in its finally block or has returned normally, and it has
\* returned only with the client socket closed and no channel left open.
C26_NoExceptionEscapes ==
  \A c \in Conns :
    /\ handler[c].exc => handler[c].pc \in {"finally", "done"}
    /\ hist[c].close_errors # {} => handler[c].pc = "done"
    /\ handler[c].pc = "finally" => ENABLED finally(c)
    /\ handler[c].pc \notin
         {"unborn", "orphan", "greeting", "greeting_reply", "request", "ipv4",
          "domain_len", "domain", "port", "open_channel", "success_reply",
          "failure_reply", "finally"} \cup RelayPcs =>
           /\ handler[c].pc = "done"
           /\ client_sock[c].closed
           /\ channel[c].state # "open"

\* a read raised, then both closes raised, the channel one for want of a
\* channel
C26_Witness ==
  \E c \in Conns :
    /\ handler[c].pc = "done"
    /\ handler[c].exc
    /\ hist[c].close_errors = {"client_sock", "channel"}
    /\ channel[c].state = "unbound"

\* C27: a handler that is in its send to the client when the transport is
\* dead, the client not reading included, eventually leaves the loop and
\* terminates with both ends closed.
C27_DeadTransportUnblocksWriter ==
  \A c \in Conns :
    (~transport_active /\ handler[c].pc = "client_send")
      ~> (handler[c].pc = "done" /\ client_sock[c].closed)

\* C28: what happens to a request depends on its command and address type
\* bytes only: a 4-byte header is rejected exactly when the header with
\* version 5 and reserved 0 and the same two bytes is; with CONNECT and
\* address type 1 or 3 it is not rejected whatever its version and reserved
\* byte, and the destination and the reply are those of the valid request;
\* otherwise it is closed with no reply frame and no channel.
C28_HeaderVersionReservedIgnored ==
  \A c \in Conns :
    LET reads == hist[c].reads
    IN  Len(reads) >= 2 /\ Len(reads[2]) = 4 =>
          LET hdr  == reads[2]
              twin == <<5, hdr[2], 0, hdr[4]>>
          IN  /\ request_rejected(hdr) = request_rejected(twin)
              /\ hdr[2] = 1 /\ hdr[4] \in {1, 3} =>
                   ~(Len(reads) = 2 /\ handler[c].pc \in {"finally", "done"}
                       /\ ~handler[c].exc)
              /\ hdr[2] # 1 \/ hdr[4] \notin {1, 3} =>
                   /\ hist[c].opens = 0
                   /\ client_sock[c].sent = <<5, 0>>
                   /\ handler[c].pc \in {"finally", "done"}
              /\ ( /\ hist[c].opens > 0
                   /\ HandshakeComplete(reads)
                   /\ reads[3] = <<10, 0, 0, 1>>
                   /\ reads[4] = <<0, 80>> ) =>
                     hist[c].dest = <<<<49, 48, 46, 48, 46, 48, 46, 49>>, 80>>

\* a CONNECT with version 4 and reserved byte 9 got its channel to
\* 10.0.0.1:80 and the success frame
C28_Witness ==
  \E c \in Conns :
    /\ Len(hist[c].reads) = 4
    /\ hist[c].reads[2] = <<4, 1, 9, 1>>
    /\ hist[c].dest = <<<<49, 48, 46, 48, 46, 48, 46, 49>>, 80>>
    /\ channel[c].state = "open"
    /\ client_sock[c].sent = <<5, 0>> \o <<5, 0, 0, 1, 0, 0, 0, 0, 0, 0>>

\* C29: when the read of the request header returned 1 to 3 bytes, the
\* handler reads nothing more: it closes the client socket, sends no reply
\* frame after the greeting reply and opens no channel, also while the
\* client is still connected and goes on writing.
C29_ShortHeaderRejected ==
  \A c \in Conns :
    LET reads == hist[c].reads
    IN  ( /\ Len(reads) >= 2
          /\ reads[2] # RAISE
          /\ Len(reads[2]) \in 1..3 ) =>
            /\ Len(reads) = 2
            /\ handler[c].pc \in {"finally", "done"}
            /\ client_sock[c].closed
            /\ client_sock[c].sent = <<5, 0>>
            /\ hist[c].opens = 0
            /\ channel[c].state = "unbound"

\* the header came in two pieces from a client that is still connected and
\* has written the rest by now
C29_Witness ==
  \E c \in Conns :
    /\ Len(hist[c].reads) = 2
    /\ hist[c].reads[2] # RAISE
    /\ Len(hist[c].reads[2]) \in 1..3
    /\ client[c].state = "open"
    /\ Avail(c) > 0
    /\ handler[c].pc = "done"

\* C30: once accept has raised, the accept loop has stopped for good and no
\* pending connection gets a handler any more; the handlers that run are
\* left alone: only a handler's own step changes its client socket or
\* closes its channel, a handler that does not wait for its own client or
\* channel can take its next step, a relay ends only by its own zero-length
\* read, I/O error or liveness check, and the process does not end while a
\* handler runs.
C30_HandlersSurviveAcceptLoop ==
  /\ [](accept_exc # "none" =>
          /\ run_pc = "stopped"
          /\ \A c \in Conns :
               /\ handler[c].pc \notin {"unborn", "orphan", "done"}
                    /\ ~Blocked(c) => ENABLED handle_socks(c)
               /\ handler[c].pc \in RelayPcs =>
                    ~client_sock[c].closed /\ channel[c].state = "open"
               /\ handler[c].pc \in {"finally", "done"} /\ hist[c].relay_from > 0 =>
                    Len(hist[c].left) = 2
               /\ main_pc = "exit_0" =>
                    handler[c].pc \in {"unborn", "orphan", "done"})
  /\ [][accept_exc # "none" =>
          \A c \in Conns :
            /\ handler[c].pc = "unborn" => handler'[c].pc = "unborn"
            /\ client_sock'[c] # client_sock[c] => handle_socks(c)
            /\ channel'[c].state # channel[c].state => handle_socks(c)]_vars

\* accept raised with a connection pending while a handler relays; the
\* handler has forwarded data and the pending connection has no handler
C30_Witness ==
  \E c, d \in Conns :
    /\ accept_exc \in {"transient", "fatal"}
    /\ handler[c].pc \in RelayPcs
    /\ channel[c].sent # <<>>
    /\ client[d].state = "open"
    /\ handler[d].pc = "unborn"

====
